---- MODULE Spec2Model ----
(***************************************************************************)
(* WaveParticles (src/App.tsx): the hover tracker of the React component   *)
(* (useState + useFrame + pointer handlers) and the two GLSL shaders.      *)
(*                                                                         *)
(* Numbers are fixed point.  uHoverState and gl_PointCoord are counted in  *)
(* units of 1/One, world coordinates, time, angles and sines in units of   *)
(* 1/Milli.  JavaScript arithmetic rounds to nearest (ties to even), the   *)
(* shader arithmetic truncates toward zero.                                *)
(***************************************************************************)
EXTENDS Integers, Sequences, FiniteSets

VARIABLES
    materialRef,     \* materialRef.current is attached (line 158, 225)
    hovered,         \* the `hovered` value the current useFrame closure holds
    pendingHovered,  \* the value setHovered queued for the next render
    pointer,         \* state.pointer of the host, normalized, in 1/Milli
    uTime,           \* uniforms.uTime.value, in 1/Milli s
    uMouse,          \* uniforms.uMouse.value, in 1/Milli
    uHoverState,     \* uniforms.uHoverState.value, in 1/One
    ticks,           \* frames run with `hovered` unchanged (convergence runs)
    stage,           \* "input", "vertex", "raster", "fragment"
    position,        \* the vertex attribute `position`.xy, in 1/Milli
    viewZ,           \* viewPosition.z, in 1/Milli
    elevation,       \* vertex shader local `elevation`
    distortion,      \* vertex shader local `distortion`
    vElevation,      \* varying vElevation (modelPosition.z after displacement)
    vDistance,       \* varying vDistance
    pointSizeKind,   \* "finite", "+inf", "-inf", "nan": class of gl_PointSize
    gl_PointSize,    \* gl_PointSize when finite, in 1/Milli
    gl_PointCoord,   \* gl_PointCoord, in 1/One
    discarded,       \* the fragment shader executed `discard`
    alpha            \* gl_FragColor.a, in 1/Milli

vars == << materialRef, hovered, pendingHovered, pointer, uTime, uMouse,
           uHoverState, ticks, stage, position, viewZ, elevation, distortion,
           vElevation, vDistance, pointSizeKind, gl_PointSize, gl_PointCoord,
           discarded, alpha >>

trackerVars == << materialRef, hovered, pendingHovered, pointer, uTime, uMouse,
                  uHoverState >>

shaderVars == << stage, position, viewZ, elevation, distortion, vElevation,
                 vDistance, pointSizeKind, gl_PointSize, gl_PointCoord,
                 discarded, alpha >>

----------------------------------------------------------------------------
(* Fixed-point units and arithmetic *)

\* 1.0 of uHoverState and of gl_PointCoord
One == 10000

\* 1.0 of world coordinates, seconds, radians and sines
Milli == 1000

Abs(n) == IF n < 0 THEN -n ELSE n

Max(a, b) == IF a >= b THEN a ELSE b

Min(a, b) == IF a <= b THEN a ELSE b

\* n / d for n >= 0, d > 0, rounded to nearest, ties to even
RoundDiv(n, d) ==
    LET q == n \div d
        r == n % d
    IN  IF 2 * r < d THEN q
        ELSE IF 2 * r > d THEN q + 1
        ELSE IF q % 2 = 0 THEN q ELSE q + 1

\* n / d for d > 0, truncated toward zero
TruncDiv(n, d) == IF n >= 0 THEN n \div d ELSE -((-n) \div d)

----------------------------------------------------------------------------
(* Interaction-state tracker *)

\* the smoothing factor 0.1 as AlphaNum / AlphaDen
AlphaNum == 1

AlphaDen == 10

\* the pointer samples the host reports, each in [-1,1]^2
Pointers == { <<0, 0>>, <<Milli \div 2, Milli \div 2>>, <<-Milli, Milli>> }

\* state.clock.getElapsedTime(): the host's clock advances by TimeStep from
\* one frame to the next (a constant frame cadence) and is followed for
\* MaxClockSteps frames
TimeStep == (3 * Milli) \div 10

MaxClockSteps == 2

getElapsedTime == Min(uTime + TimeStep, MaxClockSteps * TimeStep)

\* lerp without the (1 - t) weight on x
lerpUnweighted(x, y, tNum, tDen) == x + RoundDiv(tNum * y, tDen)

\* lerp with a smoothing factor ten times smaller
lerpSlow(x, y, tNum, tDen) == RoundDiv((10 * tDen - tNum) * x + tNum * y, 10 * tDen)

\* THREE.MathUtils.lerp(x, y, t) = (1 - t) * x + t * y, t = tNum / tDen
lerp(x, y, tNum, tDen) == RoundDiv((tDen - tNum) * x + tNum * y, tDen)

\* the two targets exchanged
TargetHoverInverted(h) == IF h THEN 0 ELSE One

\* const targetHover = hovered ? 1.0 : 0.0
TargetHover(h) == IF h THEN One ELSE 0

\* setHovered(v): React queues the update; the closure of useFrame keeps its
\* `hovered` until the component renders again
setHovered(v) == pendingHovered' = v

TrackerInit ==
    /\ materialRef = FALSE
    /\ hovered = FALSE
    /\ pendingHovered = FALSE
    /\ pointer = <<0, 0>>
    /\ uTime = 0
    /\ uMouse = <<0, 0>>
    /\ uHoverState = 0

ShaderIdle ==
    /\ stage = "input"
    /\ position = <<0, 0>>
    /\ viewZ = -(15 * Milli)
    /\ elevation = 0
    /\ distortion = 0
    /\ vElevation = 0
    /\ vDistance = 0
    /\ pointSizeKind = "finite"
    /\ gl_PointSize = 0
    /\ gl_PointCoord = <<0, 0>>
    /\ discarded = FALSE
    /\ alpha = 0

Init == TrackerInit /\ ShaderIdle /\ ticks = 0

\* the first commit attaches the material to materialRef and the handlers
\* to the points object
Mount ==
    /\ ~materialRef
    /\ materialRef' = TRUE
    /\ UNCHANGED << hovered, pendingHovered, pointer, uTime, uMouse, uHoverState >>

\* onPointerOver={() => setHovered(true)}; the host has put the event's
\* sample p in state.pointer before it calls the handler
OnPointerOver(p) ==
    /\ materialRef
    /\ pointer' = p
    /\ setHovered(TRUE)
    /\ UNCHANGED << materialRef, hovered, uTime, uMouse, uHoverState >>

\* onPointerOut={() => setHovered(false)}
OnPointerOut(p) ==
    /\ materialRef
    /\ pointer' = p
    /\ setHovered(FALSE)
    /\ UNCHANGED << materialRef, hovered, uTime, uMouse, uHoverState >>

\* a move handler that writes the event's sample to uMouse itself
OnPointerMoveImmediate(p) ==
    /\ materialRef
    /\ pointer' = p
    /\ setHovered(TRUE)
    /\ uMouse' = p
    /\ UNCHANGED << materialRef, hovered, uTime, uHoverState >>

\* onPointerMove={(e) => { setHovered(true); }}
OnPointerMove(p) ==
    /\ materialRef
    /\ pointer' = p
    /\ setHovered(TRUE)
    /\ UNCHANGED << materialRef, hovered, uTime, uMouse, uHoverState >>

\* the pointer moves over the canvas away from the points: state.pointer
\* follows, no handler of the component runs
HostPointerMove(p) ==
    /\ pointer' = p
    /\ UNCHANGED << materialRef, hovered, pendingHovered, uTime, uMouse, uHoverState >>

\* React renders the component with the queued state; useFrame's callback is
\* replaced by the closure over the new `hovered`
Render ==
    /\ materialRef
    /\ hovered # pendingHovered
    /\ hovered' = pendingHovered
    /\ UNCHANGED << materialRef, pendingHovered, pointer, uTime, uMouse, uHoverState >>

\* a frame tick that puts uMouse back to the origin while not hovered
FrameTickResetsPointer ==
    IF ~materialRef
    THEN UNCHANGED trackerVars
    ELSE /\ uTime' = getElapsedTime
         /\ uHoverState' = lerp(uHoverState, TargetHover(hovered), AlphaNum, AlphaDen)
         /\ uMouse' = IF hovered THEN pointer ELSE <<0, 0>>
         /\ UNCHANGED << materialRef, hovered, pendingHovered, pointer >>

\* useFrame((state) => { ... }): one frame tick
FrameTick ==
    IF ~materialRef
    THEN UNCHANGED trackerVars
    ELSE /\ uTime' = getElapsedTime
         /\ uHoverState' = lerp(uHoverState, TargetHover(hovered), AlphaNum, AlphaDen)
         /\ uMouse' = IF hovered THEN pointer ELSE uMouse
         /\ UNCHANGED << materialRef, hovered, pendingHovered, pointer >>

useFrame == FrameTick /\ UNCHANGED ticks

Next ==
    \/ Mount /\ UNCHANGED ticks /\ UNCHANGED shaderVars
    \/ (\E p \in Pointers : OnPointerOver(p)) /\ UNCHANGED ticks /\ UNCHANGED shaderVars
    \/ (\E p \in Pointers : OnPointerOut(p)) /\ UNCHANGED ticks /\ UNCHANGED shaderVars
    \/ (\E p \in Pointers : OnPointerMove(p)) /\ UNCHANGED ticks /\ UNCHANGED shaderVars
    \/ (\E p \in Pointers : HostPointerMove(p)) /\ UNCHANGED ticks /\ UNCHANGED shaderVars
    \/ Render /\ UNCHANGED ticks /\ UNCHANGED shaderVars
    \/ useFrame /\ UNCHANGED shaderVars

Spec == Init /\ [][Next]_vars

----------------------------------------------------------------------------
(* Runs of frame ticks with `hovered` held constant, from any hover value *)

MaxTicks == 80

InitLerp ==
    /\ materialRef = TRUE
    /\ hovered \in BOOLEAN
    /\ pendingHovered = hovered
    /\ pointer = <<0, 0>>
    /\ uTime = 0
    /\ uMouse = <<0, 0>>
    /\ uHoverState \in 0..One
    /\ ticks = 0
    /\ ShaderIdle

CountedFrame ==
    /\ ticks < MaxTicks
    /\ FrameTick
    /\ ticks' = ticks + 1
    /\ UNCHANGED shaderVars

NextLerp == CountedFrame

SpecLerp == InitLerp /\ [][NextLerp]_vars

----------------------------------------------------------------------------
(* Shader arithmetic *)

\* a * b of two 1/Milli numbers
FMul(a, b) == TruncDiv(a * b, Milli)

\* n / d truncated toward zero, d # 0 of either sign
Quot(n, d) == IF d > 0 THEN TruncDiv(n, d) ELSE -TruncDiv(n, -d)

RECURSIVE FloorSqrtIn(_, _, _)
\* the largest r in lo..hi with r * r <= n
FloorSqrtIn(n, lo, hi) ==
    IF lo = hi THEN lo
    ELSE LET mid == (lo + hi + 1) \div 2
         IN  IF mid * mid <= n
             THEN FloorSqrtIn(n, mid, hi)
             ELSE FloorSqrtIn(n, lo, mid - 1)

\* sqrt(n) rounded to nearest, n < 2^31
Sqrt(n) ==
    LET r == FloorSqrtIn(n, 0, 46340)
    IN  IF n - r * r > r THEN r + 1 ELSE r

\* length(v) of a vec2
Length(v) == Sqrt(v[1] * v[1] + v[2] * v[2])

Pi == (31416 * Milli) \div 10000

\* sin on [0, pi/2]: x - x^3/3! + x^5/5! - x^7/7!, evaluated in 1/(10 Milli)
SinQuadrant(xm) ==
    LET K  == 10 * Milli
        x  == 10 * xm
        x2 == (x * x) \div K
        t3 == ((x * x2) \div K) \div 6
        t5 == ((t3 * x2) \div K) \div 20
        t7 == ((t5 * x2) \div K) \div 42
    IN  (x - t3 + t5 - t7) \div 10

\* sin(a), a in 1/Milli radians, by reduction to [0, pi/2]
Sin(a) ==
    LET r == a % (2 * Pi)
        s == IF r >= Pi THEN r - Pi ELSE r
        q == IF s > Pi \div 2 THEN Pi - s ELSE s
    IN  IF r >= Pi THEN -SinQuadrant(q) ELSE SinQuadrant(q)

----------------------------------------------------------------------------
(* Vertex shader *)

\* uniforms set at construction
uSpeed == (8 * Milli) \div 10

uFrequency == (5 * Milli) \div 10

uAmplitude == (12 * Milli) \div 10

\* <planeGeometry args={[35, 20, 128, 128]} />
PlaneWidth == 35

PlaneHeight == 20

Segments == 128

\* every IndexStride-th row and column of the grid is drawn
IndexStride == 32

GridIndices == { k * IndexStride : k \in 0..(Segments \div IndexStride) }

GridVertices ==
    { << (i * PlaneWidth * Milli) \div Segments - (PlaneWidth * Milli) \div 2,
         (PlaneHeight * Milli) \div 2 - (j * PlaneHeight * Milli) \div Segments >> :
      i \in GridIndices, j \in GridIndices }

\* modelMatrix * vec4(position, 1.0) for rotation={[-Math.PI / 3, 0, 0]}:
\* (x, y cos 60, -y sin 60)
ModelPosition(pos) ==
    << pos[1], TruncDiv(pos[2], 2), -FMul(pos[2], (866 * Milli) \div 1000) >>

\* the two sine waves of the base animation
Elevation(mp, t) ==
    FMul(Sin(FMul(mp[1], uFrequency) + FMul(t, uSpeed)), uAmplitude)
    + TruncDiv(FMul(Sin(TruncDiv(FMul(mp[2], uFrequency), 2)
                        + TruncDiv(FMul(t, uSpeed), 2)),
                    uAmplitude), 2)

\* vec2 interactionVec = uMouse * vec2(15.0, 10.0) - modelPosition.xy
InteractionVec(mp, mouse) == << mouse[1] * 15 - mp[1], mouse[2] * 10 - mp[2] >>

\* influence with the max(0.0, ...) left out
InfluenceUnclamped(dist) == Milli - TruncDiv(dist, 3)

\* float influence = max(0.0, 1.0 - dist / 3.0)
Influence(dist) == Max(0, Milli - TruncDiv(dist, 3))

\* distortion with the uHoverState factor left out
DistortionUngated(dist, t, hover) ==
    FMul(FMul(Sin(dist * 3 - t * 5), Influence(dist)), 2 * Milli)

\* float distortion = sin(dist * 3.0 - uTime * 5.0) * influence * 2.0 * uHoverState
Distortion(dist, t, hover) ==
    TruncDiv(FMul(FMul(Sin(dist * 3 - t * 5), Influence(dist)), 2 * Milli) * hover, One)

\* the uTime values a frame is drawn at
MaxTimeSteps == 10

Times == { k * TimeStep : k \in 0..MaxTimeSteps }

RECURSIVE LerpN(_, _, _)
\* uHoverState after n frame ticks toward target
LerpN(h, target, n) ==
    IF n = 0 THEN h ELSE lerp(LerpN(h, target, n - 1), target, AlphaNum, AlphaDen)

\* hover values the shader is drawn with: those the tracker has after
\* 0, RampStride, 2 RampStride, ... ticks of hovering from 0, and the upper
\* end of [0,1]
RampStride == 3

RampCount == 4

HoverReach == { LerpN(0, One, k * RampStride) : k \in 0..RampCount } \cup { One }

\* view-space depths the camera gives a vertex: in front, at the camera
\* plane, behind
ViewDepths == { -(15 * Milli), -Milli, -1, 0, 5 * Milli }

InitVertex ==
    /\ materialRef = TRUE
    /\ hovered = FALSE
    /\ pendingHovered = FALSE
    /\ pointer = <<0, 0>>
    /\ ticks = 0
    /\ uTime \in Times
    /\ uMouse \in Pointers
    /\ uHoverState \in HoverReach
    /\ stage = "input"
    /\ position \in GridVertices
    /\ viewZ \in ViewDepths
    /\ elevation = 0
    /\ distortion = 0
    /\ vElevation = 0
    /\ vDistance = 0
    /\ pointSizeKind = "finite"
    /\ gl_PointSize = 0
    /\ gl_PointCoord = <<0, 0>>
    /\ discarded = FALSE
    /\ alpha = 0

\* gl_PointSize = 3.0 * (15.0 / -viewPosition.z): the float classes a
\* division by zero can leave, and the finite quotient otherwise
PointSizeKinds(vz) == IF vz = 0 THEN { "+inf", "-inf", "nan" } ELSE { "finite" }

PointSize(vz) == IF vz = 0 THEN 0 ELSE 3 * Quot(15 * Milli * Milli, -vz)

\* void main() of the vertex shader, for one vertex
VertexMain ==
    /\ stage = "input"
    /\ LET mp   == ModelPosition(position)
           e    == Elevation(mp, uTime)
           dist == Length(InteractionVec(mp, uMouse))
           d    == Distortion(dist, uTime, uHoverState)
       IN  /\ elevation' = e
           /\ distortion' = d
           /\ vElevation' = mp[3] + e + d
           /\ vDistance' = dist
    /\ pointSizeKind' \in PointSizeKinds(viewZ)
    /\ gl_PointSize' = PointSize(viewZ)
    /\ stage' = "vertex"
    /\ UNCHANGED << position, viewZ, gl_PointCoord, discarded, alpha >>
    /\ UNCHANGED << trackerVars, ticks >>

NextVertex == VertexMain

SpecVertex == InitVertex /\ [][NextVertex]_vars

----------------------------------------------------------------------------
(* Fragment shader *)

\* gl_PointCoord is sampled at multiples of 1 / CoordSteps
CoordSteps == 100

PointCoords == { k * (One \div CoordSteps) : k \in 0..CoordSteps }

\* elevations handed over by the vertex stage
VElevations == { -(3 * Milli), 0, 2 * Milli }

\* the centre vec2(0.5) of the point
PointCentre == << One \div 2, One \div 2 >>

\* distance(a, b) of two vec2
Distance(a, b) == Length(<< a[1] - b[1], a[2] - b[2] >>)

\* discard that takes the boundary too
DiscardInclusive(distanceToCenter) == distanceToCenter >= One \div 2

\* if (distanceToCenter > 0.5) discard;
Discard(distanceToCenter) == distanceToCenter > One \div 2

InitFragment ==
    /\ TrackerInit
    /\ ticks = 0
    /\ stage = "raster"
    /\ position = <<0, 0>>
    /\ viewZ = -(15 * Milli)
    /\ elevation = 0
    /\ distortion = 0
    /\ vElevation \in VElevations
    /\ vDistance = 0
    /\ pointSizeKind = "finite"
    /\ gl_PointSize = 3 * Milli
    /\ gl_PointCoord \in PointCoords \X PointCoords
    /\ discarded = FALSE
    /\ alpha = 0

\* void main() of the fragment shader, for one fragment
FragmentMain ==
    /\ stage = "raster"
    /\ IF Discard(Distance(gl_PointCoord, PointCentre))
       THEN /\ discarded' = TRUE
            /\ alpha' = alpha
       ELSE /\ discarded' = FALSE
            /\ alpha' = (8 * Milli) \div 10 + TruncDiv(vElevation, 10)
    /\ stage' = "fragment"
    /\ UNCHANGED << position, viewZ, elevation, distortion, vElevation, vDistance,
                    pointSizeKind, gl_PointSize, gl_PointCoord >>
    /\ UNCHANGED << trackerVars, ticks >>

NextFragment == FragmentMain

SpecFragment == InitFragment /\ [][NextFragment]_vars

----------------------------------------------------------------------------
(* Properties of the tracker *)

EnterOrMove == \E p \in Pointers : OnPointerOver(p) \/ OnPointerMove(p)

Leave == \E p \in Pointers : OnPointerOut(p)

\* C1: in every reachable state uHoverState (hoverIntensity) lies in [0,1].
C1_HoverInRange == 0 <= uHoverState /\ uHoverState <= One

\* C1 witness: after enter, render and a long run of ticks the value is within
\* 1e-3 of 1 and a leave event has been delivered.
C1_Witness ==
    /\ uHoverState > One - One \div 1000
    /\ hovered
    /\ ~pendingHovered

\* C2 as claimed: right after an enter or move event isHovering is true (be it
\* only as the queued state) and uMouse equals the sample the event carried.
C2_Original ==
    [][EnterOrMove => (hovered' \/ pendingHovered') /\ uMouse' = pointer']_vars

\* C2 amended: an enter or move event queues hovered = true and changes
\* neither `hovered` as the frame callback sees it, nor uMouse, nor
\* uHoverState; uMouse changes only in a frame tick that runs with hovered =
\* true, and then it becomes the host's current pointer value.
C2_EventDefersToFrame ==
    [][ /\ EnterOrMove =>
            /\ pendingHovered'
            /\ hovered' = hovered
            /\ uMouse' = uMouse
            /\ uHoverState' = uHoverState
        /\ uMouse' # uMouse => FrameTick /\ hovered /\ uMouse' = pointer ]_vars

\* C2 witness: an enter or move event has been delivered and not yet rendered,
\* and uMouse is not at the sample the host holds.
C2_Witness ==
    /\ pendingHovered
    /\ ~hovered
    /\ pointer # uMouse
    /\ uMouse # <<0, 0>>

C4_TickUsesLatestEvent ==
    [][ (FrameTick /\ materialRef) =>
            uHoverState' = lerp(uHoverState, TargetHover(pendingHovered),
                                AlphaNum, AlphaDen) ]_vars

\* C5: a frame tick that runs with hovered = true does not decrease
\* uHoverState, and one that runs with hovered = false does not increase it.
C5_Monotone ==
    [][ FrameTick =>
            /\ hovered => uHoverState' >= uHoverState
            /\ ~hovered => uHoverState' <= uHoverState ]_vars

\* C5 witness: a value strictly between 0 and 0.1, which only a falling tick
\* after rising ticks produces.
C5_Witness ==
    /\ ~hovered
    /\ 0 < uHoverState
    /\ uHoverState < One \div 10

\* the number of ticks after which the value is within 1e-3 of its target
ConvergeTicks == 66

\* C6: with the smoothing factor 0.1 and hovered held constant, from any value
\* in [0,1] uHoverState is within 1e-3 of its target after ConvergeTicks
\* ticks and on every later tick.
C6_Converges ==
    ticks >= ConvergeTicks =>
        1000 * Abs(uHoverState - TargetHover(hovered)) <= One

\* C6 witness: a run that reached its ConvergeTicks-th tick within 1e-3 of
\* the target without having reached the target itself.
C6_Witness ==
    /\ ticks = ConvergeTicks
    /\ uHoverState # TargetHover(hovered)
    /\ 1000 * Abs(uHoverState - TargetHover(hovered)) <= One

----------------------------------------------------------------------------
(* Properties of the shaders *)

\* the z the vertex shader added to modelPosition.z
ZAdded == vElevation - ModelPosition(position)[3]

\* the distance from the vertex to the projected pointer
PointerDist == Length(InteractionVec(ModelPosition(position), uMouse))

\* C7: when uHoverState is 0 the ripple term is exactly 0, whatever the
\* vertex, the time and the pointer, and the z added is the base elevation.
C7_GateIsStrict ==
    (stage = "vertex" /\ uHoverState = 0) =>
        /\ distortion = 0
        /\ ZAdded = elevation

\* C7 witness: a vertex inside the radius of influence, at a time where the
\* ripple's sine and the base elevation are not 0, drawn with uHoverState = 0.
C7_Witness ==
    /\ stage = "vertex"
    /\ uHoverState = 0
    /\ Influence(PointerDist) > 0
    /\ Sin(PointerDist * 3 - uTime * 5) # 0
    /\ elevation # 0
    /\ ZAdded = elevation

\* C8: the z added to a vertex is at most 1.5 * amplitude + 2.0 in magnitude.
C8_DisplacementBounded ==
    stage = "vertex" => 2 * Abs(ZAdded) <= 3 * uAmplitude + 4 * Milli

\* C8 witness: a vertex whose ripple carries it beyond the base wave's own
\* bound of 1.5 * amplitude.
C8_Witness ==
    /\ stage = "vertex"
    /\ 2 * Abs(ZAdded) > 3 * uAmplitude
    /\ distortion # 0

\* the squared distance of the fragment from the point centre
SqDist ==
    (gl_PointCoord[1] - PointCentre[1]) * (gl_PointCoord[1] - PointCentre[1])
    + (gl_PointCoord[2] - PointCentre[2]) * (gl_PointCoord[2] - PointCentre[2])

\* C9 as claimed: a fragment at distance exactly 0.5 from the centre is
\* discarded and one at distance 0.49 is drawn.
C9_Original ==
    stage = "fragment" =>
        /\ 4 * SqDist = One * One => discarded
        /\ SqDist = ((49 * One) \div 100) * ((49 * One) \div 100) => ~discarded

\* C9 amended: a fragment is discarded exactly when its distance from the
\* centre exceeds 0.5; at distance exactly 0.5, as at 0.49, it is drawn.
C9_DiscardBeyondRadius ==
    stage = "fragment" => (discarded <=> 4 * SqDist > One * One)

\* C9 witness: a drawn fragment at distance exactly 0.5, off the axes.
C9_Witness ==
    /\ stage = "fragment"
    /\ 4 * SqDist = One * One
    /\ gl_PointCoord[1] # PointCentre[1]
    /\ gl_PointCoord[2] # PointCentre[2]
    /\ ~discarded

\* C10 as claimed: the point size never comes from a division by zero (a
\* depth of 0 is clamped first), and for a depth < 0 it is
\* 3.0 * 15.0 / -depth, which is positive.
C10_DepthClamped ==
    stage = "vertex" =>
        /\ pointSizeKind = "finite"
        /\ viewZ < 0 =>
               /\ gl_PointSize = 3 * Quot(15 * Milli * Milli, -viewZ)
               /\ gl_PointSize > 0

====
